---- MODULE Spec2Model ----
(***************************************************************************)
(* Model of the WindProfit repository.                                     *)
(*                                                                         *)
(*   Spec     the two calculate_energy functions (src/main.py, the         *)
(*            three-region curve; src/test_turbine.py, the peak-power      *)
(*            curve), run sample by sample on an input drawn in Init.      *)
(*   SpecApp  the Streamlit script main() of src/main.py: one action per   *)
(*            run of the script, with the session state and the            *)
(*            st.cache_data store of fetch_wind_data.                      *)
(*                                                                         *)
(* Python numbers are modelled as exact rationals [num, den] in lowest     *)
(* terms: floating-point rounding is not modelled.                         *)
(***************************************************************************)
EXTENDS Integers, Sequences, FiniteSets, TLC

VARIABLES
    \* ---- calculate_energy (both variants)
    variant,            \* "main" (src/main.py) or "peak" (src/test_turbine.py)
    wind_speeds,        \* the argument: a sequence of integer speeds
    start_speed, rated_speed, max_speed, peak_power_speed,
    rated_power, peak_power,
    pc,                 \* "start" | "loop" | "sum" | "done" | "error" | "idle"
    idx,                \* position of the for loop in wind_speeds
    power_generation,   \* the list being built
    energy,             \* main: the list of per-sample energies; peak: the accumulator
    time_interval,      \* hours per sample
    total_energy,       \* the returned total
    \* ---- main() of src/main.py
    session,            \* st.session_state: a function on the keys that are set
    cache,              \* st.cache_data store of fetch_wind_data: key -> entry
    clock,              \* seconds
    requests,           \* how many times the archive was contacted
    submits,            \* how many times the form was submitted
    lastGeocode,        \* history: what get_lat_lon_from_address returned last
    lastCall            \* history: the last call of fetch_wind_data

engineVars == <<variant, wind_speeds, start_speed, rated_speed, max_speed,
                peak_power_speed, rated_power, peak_power, pc, idx,
                power_generation, energy, time_interval, total_energy>>
appVars == <<session, cache, clock, requests, submits, lastGeocode, lastCall>>
vars == <<engineVars, appVars>>

----------------------------------------------------------------------------
\* Bounds of the model.

\* Profile speeds are drawn from 0..MaxSpeed, samples from 0..MaxSpeed+1.
MaxSpeed == 2
\* Length of the bounded wind series.
MaxLen == 2
\* Powers are drawn from 1..MaxPower.
MaxPower == 2
\* Scale factors k are drawn from 1..MaxScale.
MaxScale == 3
\* Form submissions per session.
MaxSubmits == 2
\* Dates of the form are drawn from 1..MaxDay.
MaxDay == 1
\* The clock advances in steps of TickSeconds, MaxTicks times.
TickSeconds == 43200
MaxTicks == 2

----------------------------------------------------------------------------
\* Exact rational arithmetic, standing for Python's numbers.

Abs(x) == IF x < 0 THEN -x ELSE x

RECURSIVE GCD(_, _)
GCD(a, b) == IF b = 0 THEN a ELSE GCD(b, a % b)

\* n / d in lowest terms with a positive denominator (d # 0).
Rat(n, d) ==
    LET g == GCD(Abs(n), Abs(d))
        s == IF d < 0 THEN -1 ELSE 1
    IN  [num |-> (s * n) \div g, den |-> (s * d) \div g]

FromInt(n) == [num |-> n, den |-> 1]
Zero == FromInt(0)
\* The placeholder of a variable not assigned yet.
Unset == [num |-> 0, den |-> 0]

LCM(a, b) == (a \div GCD(a, b)) * b
RAdd(a, b) ==
    LET l == LCM(a.den, b.den)
    IN  Rat(a.num * (l \div a.den) + b.num * (l \div b.den), l)
RNeg(a) == [num |-> -a.num, den |-> a.den]
RSub(a, b) == RAdd(a, RNeg(b))
RMul(a, b) == Rat(a.num * b.num, a.den * b.den)
\* a / b for b # 0.
RDiv(a, b) == Rat(a.num * b.den, a.den * b.num)
RCube(a) == RMul(a, RMul(a, a))

\* np.sum of a list: the list is summed by halves.
RECURSIVE RSum(_)
RSum(s) ==
    IF Len(s) = 0 THEN Zero
    ELSE IF Len(s) = 1 THEN s[1]
    ELSE LET h == Len(s) \div 2
         IN  RAdd(RSum(SubSeq(s, 1, h)), RSum(SubSeq(s, h + 1, Len(s))))

----------------------------------------------------------------------------
\* The outcome of evaluating an expression: a value, or an exception.

Ok(v) == [raises |-> FALSE, value |-> v]
Raise == [raises |-> TRUE, value |-> Unset]

\* Python's a / b on two integers: ZeroDivisionError when b = 0.
PyDiv(a, b) == IF b = 0 THEN Raise ELSE Ok(Rat(a, b))

----------------------------------------------------------------------------
\* Mutants of RegionMain: the ramp closed at ratedSpeed; the plateau open at
\* maxSpeed.
RegionMain_ClosedRamp(speed, start, rated, max) ==
    IF speed < start THEN "below"
    ELSE IF start <= speed /\ speed <= rated THEN "ramp"
    ELSE IF rated <= speed /\ speed <= max THEN "rated"
    ELSE "cutout"

RegionMain_OpenCutout(speed, start, rated, max) ==
    IF speed < start THEN "below"
    ELSE IF start <= speed /\ speed < rated THEN "ramp"
    ELSE IF rated <= speed /\ speed < max THEN "rated"
    ELSE "cutout"

\* src/main.py, calculate_energy: the branch taken for one sample.

RegionMain(speed, start, rated, max) ==
    IF speed < start THEN "below"
    ELSE IF start <= speed /\ speed < rated THEN "ramp"
    ELSE IF rated <= speed /\ speed <= max THEN "rated"
    ELSE "cutout"

\* src/main.py, calculate_energy: power_output of one sample.
PowerOutputMain(speed, start, rated, max, rp) ==
    LET region == RegionMain(speed, start, rated, max)
    IN  CASE region = "below" -> Ok(Zero)
          [] region = "ramp" ->
                LET q == PyDiv(speed - start, rated - start)
                IN  IF q.raises THEN Raise
                    ELSE Ok(RMul(FromInt(rp), RCube(q.value)))
          [] region = "rated" -> Ok(FromInt(rp))
          [] OTHER -> Ok(Zero)

\* Mutant of RegionPeak: the decline open at maxSpeed.
RegionPeak_OpenCutout(speed, start, rated, pps, max) ==
    IF speed < start THEN "below"
    ELSE IF start <= speed /\ speed < rated THEN "ramp"
    ELSE IF rated <= speed /\ speed <= pps THEN "peak"
    ELSE IF pps < speed /\ speed < max THEN "decline"
    ELSE "cutout"

\* src/test_turbine.py, calculate_energy: the branch taken for one sample.
RegionPeak(speed, start, rated, pps, max) ==
    IF speed < start THEN "below"
    ELSE IF start <= speed /\ speed < rated THEN "ramp"
    ELSE IF rated <= speed /\ speed <= pps THEN "peak"
    ELSE IF pps < speed /\ speed <= max THEN "decline"
    ELSE "cutout"

\* Mutant of PowerOutputPeak: the plateau is the literal 14000 of the comment
\* of line 18, not peak_power.
PowerOutputPeak_HardcodedPeak(speed, start, rated, pps, max, rp, pp) ==
    LET region == RegionPeak(speed, start, rated, pps, max)
    IN  CASE region = "below" -> Ok(Zero)
          [] region = "ramp" ->
                LET q == PyDiv(speed - start, rated - start)
                IN  IF q.raises THEN Raise
                    ELSE Ok(RMul(FromInt(pp), RCube(q.value)))
          [] region = "peak" -> Ok(FromInt(14000))
          [] region = "decline" ->
                LET q == PyDiv(speed - pps, max - pps)
                IN  IF q.raises THEN Raise
                    ELSE Ok(RSub(FromInt(pp), RMul(q.value, FromInt(pp - rp))))
          [] OTHER -> Ok(Zero)

\* src/test_turbine.py, calculate_energy: power_output of one sample.
PowerOutputPeak(speed, start, rated, pps, max, rp, pp) ==
    LET region == RegionPeak(speed, start, rated, pps, max)
    IN  CASE region = "below" -> Ok(Zero)
          [] region = "ramp" ->
                LET q == PyDiv(speed - start, rated - start)
                IN  IF q.raises THEN Raise
                    ELSE Ok(RMul(FromInt(pp), RCube(q.value)))
          [] region = "peak" -> Ok(FromInt(pp))
          [] region = "decline" ->
                LET q == PyDiv(speed - pps, max - pps)
                IN  IF q.raises THEN Raise
                    ELSE Ok(RSub(FromInt(pp), RMul(q.value, FromInt(pp - rp))))
          [] OTHER -> Ok(Zero)

----------------------------------------------------------------------------
\* The inputs of calculate_energy.

ProfileSpeeds == 0..MaxSpeed
SampleSpeeds == 0..(MaxSpeed + 1)
Powers == 1..MaxPower

SeqsUpTo(S, n) == UNION {[1..m -> S] : m \in 0..n}

\* wind_speeds = np.arange(0, 30, 1) of the script in src/test_turbine.py,
\* also the series of the reference scenario of the three-region curve.
ScenarioSpeeds == [i \in 1..30 |-> i - 1]

\* The parameters set by the script in src/test_turbine.py; the three-region
\* reference scenario uses the same start, rated and max speed and rated power.
ScenarioProfile ==
    [start |-> 3, rated |-> 10, pps |-> 15, max |-> 25, rp |-> 10000, pp |-> 14000]

MainInputs ==
    {[ws |-> ws, start |-> a, rated |-> b, pps |-> 0, max |-> c, rp |-> p, pp |-> 0] :
        ws \in SeqsUpTo(SampleSpeeds, MaxLen),
        a \in ProfileSpeeds, b \in ProfileSpeeds, c \in ProfileSpeeds, p \in Powers}
    \cup {[ScenarioProfile EXCEPT !.pps = 0, !.pp = 0] @@ [ws |-> w] :
            w \in {ScenarioSpeeds, <<>>}}

PeakInputs ==
    {[ws |-> ws, start |-> a, rated |-> b, pps |-> d, max |-> c, rp |-> p, pp |-> q] :
        ws \in SeqsUpTo(SampleSpeeds, MaxLen),
        a \in ProfileSpeeds, b \in ProfileSpeeds, c \in ProfileSpeeds,
        d \in ProfileSpeeds, p \in Powers, q \in Powers}
    \cup {ScenarioProfile @@ [ws |-> w] : w \in {ScenarioSpeeds, <<>>}}

----------------------------------------------------------------------------
\* The application's variables while the engine runs, and the reverse.

AppIdle ==
    /\ session = <<>>
    /\ cache = <<>>
    /\ clock = 0
    /\ requests = 0
    /\ submits = 0
    /\ lastGeocode = "none"
    /\ lastCall = [made |-> FALSE]

EngineIdle ==
    /\ variant = "none"
    /\ wind_speeds = <<>>
    /\ start_speed = 0 /\ rated_speed = 0 /\ max_speed = 0 /\ peak_power_speed = 0
    /\ rated_power = 0 /\ peak_power = 0
    /\ pc = "idle"
    /\ idx = 0
    /\ power_generation = <<>>
    /\ energy = <<>>
    /\ time_interval = Unset
    /\ total_energy = Unset

----------------------------------------------------------------------------
\* calculate_energy is called: the state at its first statement.

Init ==
    /\ variant \in {"main", "peak"}
    /\ \E in \in (IF variant = "main" THEN MainInputs ELSE PeakInputs) :
        /\ wind_speeds = in.ws
        /\ start_speed = in.start
        /\ rated_speed = in.rated
        /\ peak_power_speed = in.pps
        /\ max_speed = in.max
        /\ rated_power = in.rp
        /\ peak_power = in.pp
    /\ pc = "start"
    /\ idx = 0
    /\ power_generation = <<>>
    /\ energy = <<>>
    /\ time_interval = Unset
    /\ total_energy = Unset
    /\ AppIdle

params == <<variant, wind_speeds, start_speed, rated_speed, max_speed,
            peak_power_speed, rated_power, peak_power>>

\* src/main.py 57-58: energy = [], power_generation = []; each sample counts
\* for 1 hour (the literal 1 of line 69).
MainEnter ==
    /\ variant = "main" /\ pc = "start"
    /\ energy' = <<>>
    /\ power_generation' = <<>>
    /\ time_interval' = FromInt(1)
    /\ idx' = 1
    /\ pc' = "loop"
    /\ UNCHANGED <<params, total_energy, appVars>>

\* src/main.py 59-69: one iteration of the for loop.
MainLoop ==
    /\ variant = "main" /\ pc = "loop" /\ idx <= Len(wind_speeds)
    /\ LET out == PowerOutputMain(wind_speeds[idx], start_speed, rated_speed,
                                  max_speed, rated_power)
       IN  IF out.raises
           THEN /\ pc' = "error"
                /\ UNCHANGED <<power_generation, energy, idx>>
           ELSE /\ power_generation' = Append(power_generation, out.value)
                /\ energy' = Append(energy, RMul(out.value, time_interval))
                /\ idx' = idx + 1
                /\ pc' = "loop"
    /\ UNCHANGED <<params, time_interval, total_energy, appVars>>

\* src/main.py 71-72: total_energy = np.sum(energy); return.
MainReturn ==
    /\ variant = "main" /\ pc = "loop" /\ idx > Len(wind_speeds)
    /\ total_energy' = RSum(energy)
    /\ pc' = "done"
    /\ UNCHANGED <<params, idx, power_generation, energy, time_interval, appVars>>

\* src/test_turbine.py 6-8: energy = 0, power_generation = [],
\* time_interval = 1 / len(wind_speeds).
PeakEnter ==
    /\ variant = "peak" /\ pc = "start"
    /\ LET t == PyDiv(1, Len(wind_speeds))
       IN  IF t.raises
           THEN /\ pc' = "error"
                /\ UNCHANGED <<time_interval, idx>>
           ELSE /\ time_interval' = t.value
                /\ idx' = 1
                /\ pc' = "loop"
    /\ energy' = Zero
    /\ power_generation' = <<>>
    /\ UNCHANGED <<params, total_energy, appVars>>

\* Mutant of PeakLoop: the energy of a sample is its power, time_interval
\* forgotten.
PeakLoop_ForgetsInterval ==
    /\ variant = "peak" /\ pc = "loop" /\ idx <= Len(wind_speeds)
    /\ LET out == PowerOutputPeak(wind_speeds[idx], start_speed, rated_speed,
                                  peak_power_speed, max_speed, rated_power, peak_power)
       IN  IF out.raises
           THEN /\ pc' = "error"
                /\ UNCHANGED <<power_generation, energy, idx>>
           ELSE /\ power_generation' = Append(power_generation, out.value)
                /\ energy' = RAdd(energy, out.value)
                /\ idx' = idx + 1
                /\ pc' = "loop"
    /\ UNCHANGED <<params, time_interval, total_energy, appVars>>

\* src/test_turbine.py 10-28: one iteration of the for loop.
PeakLoop ==
    /\ variant = "peak" /\ pc = "loop" /\ idx <= Len(wind_speeds)
    /\ LET out == PowerOutputPeak(wind_speeds[idx], start_speed, rated_speed,
                                  peak_power_speed, max_speed, rated_power, peak_power)
       IN  IF out.raises
           THEN /\ pc' = "error"
                /\ UNCHANGED <<power_generation, energy, idx>>
           ELSE /\ power_generation' = Append(power_generation, out.value)
                /\ energy' = RAdd(energy, RMul(out.value, time_interval))
                /\ idx' = idx + 1
                /\ pc' = "loop"
    /\ UNCHANGED <<params, time_interval, total_energy, appVars>>

\* The divisor of line 30 of src/test_turbine.py (W.h to kWh).
WattsPerKilowatt == 1000

\* src/test_turbine.py 30-31: total_energy = energy / 1000; return.
PeakReturn ==
    /\ variant = "peak" /\ pc = "loop" /\ idx > Len(wind_speeds)
    /\ total_energy' = RDiv(energy, FromInt(WattsPerKilowatt))
    /\ pc' = "done"
    /\ UNCHANGED <<params, idx, power_generation, energy, time_interval, appVars>>

Next == MainEnter \/ MainLoop \/ MainReturn \/ PeakEnter \/ PeakLoop \/ PeakReturn

Spec == Init /\ [][Next]_vars

----------------------------------------------------------------------------
\* calculate_energy as a function of its arguments (the same statements as
\* the actions above, run to the end): used to compare two calls.

CalcMain(ws, start, rated, max, rp) ==
    LET outs == [i \in 1..Len(ws) |-> PowerOutputMain(ws[i], start, rated, max, rp)]
    IN  IF \E i \in 1..Len(ws) : outs[i].raises
        THEN [raises |-> TRUE, total |-> Unset, powers |-> <<>>]
        ELSE [raises |-> FALSE,
              total  |-> RSum([i \in 1..Len(ws) |-> RMul(outs[i].value, FromInt(1))]),
              powers |-> [i \in 1..Len(ws) |-> outs[i].value]]

CalcPeak(ws, start, rated, pps, max, rp, pp) ==
    LET t    == PyDiv(1, Len(ws))
        outs == [i \in 1..Len(ws) |->
                    PowerOutputPeak(ws[i], start, rated, pps, max, rp, pp)]
    IN  IF t.raises \/ \E i \in 1..Len(ws) : outs[i].raises
        THEN [raises |-> TRUE, total |-> Unset, powers |-> <<>>]
        ELSE [raises |-> FALSE,
              total  |-> RDiv(RSum([i \in 1..Len(ws) |-> RMul(outs[i].value, t.value)]),
                              FromInt(WattsPerKilowatt)),
              powers |-> [i \in 1..Len(ws) |-> outs[i].value]]

----------------------------------------------------------------------------
\* Vocabulary of the properties.

Returned == pc = "done"
Raised == pc = "error"
\* Samples processed so far.
Processed == 1..Len(power_generation)

\* The sum of f[lo..hi] and of f[1..n], written independently of the code's
\* own summation: every term is brought to the common denominator first.
RECURSIVE LcmOfDens(_, _, _)
LcmOfDens(f, lo, hi) ==
    IF lo > hi THEN 1
    ELSE IF lo = hi THEN f[lo].den
    ELSE LET m == (lo + hi) \div 2
         IN  LCM(LcmOfDens(f, lo, m), LcmOfDens(f, m + 1, hi))
RECURSIVE NumSum(_, _, _, _)
NumSum(f, l, lo, hi) ==
    IF lo > hi THEN 0
    ELSE IF lo = hi THEN f[lo].num * (l \div f[lo].den)
    ELSE LET m == (lo + hi) \div 2
         IN  NumSum(f, l, lo, m) + NumSum(f, l, m + 1, hi)
SumTo(f, n) ==
    LET l == LcmOfDens(f, 1, n)
    IN  Rat(NumSum(f, l, 1, n), l)

Scaled(k, r) == Rat(k * r.num, r.den)

ValidMainProfile == start_speed < rated_speed /\ rated_speed < max_speed
ValidPeakProfile ==
    /\ start_speed < rated_speed
    /\ rated_speed < peak_power_speed
    /\ peak_power_speed < max_speed
ValidProfile == IF variant = "main" THEN ValidMainProfile ELSE ValidPeakProfile

IsScenarioA ==
    /\ variant = "main" /\ wind_speeds = ScenarioSpeeds
    /\ start_speed = 3 /\ rated_speed = 10 /\ max_speed = 25 /\ rated_power = 10000
IsScenarioB ==
    /\ variant = "peak" /\ wind_speeds = ScenarioSpeeds
    /\ start_speed = 3 /\ rated_speed = 10 /\ peak_power_speed = 15
    /\ max_speed = 25 /\ rated_power = 10000 /\ peak_power = 14000

----------------------------------------------------------------------------
\* C1: for any profile, in both variants, a sample above maxSpeed yields power
\* 0 and a sample below startSpeed yields power 0.
C1_ShutdownOutsideRange ==
    \A i \in Processed :
        (wind_speeds[i] > max_speed \/ wind_speeds[i] < start_speed)
            => power_generation[i] = Zero

\* C2: in both variants the returned totalEnergy is the sum of the returned
\* powers, each multiplied by 1 hour, in the unit of the powers.
C2_TotalIsSumTimesOneHour ==
    Returned =>
        total_energy = SumTo([i \in Processed |-> RMul(power_generation[i], FromInt(1))],
                             Len(power_generation))

\* C2 as amended: the three-region variant returns the sum of the powers times
\* 1 hour; the peak-power variant returns the sum of the powers times 1/n hour
\* (n the length of the series), divided by 1000.
C2_TotalPerVariant ==
    Returned =>
        LET n == Len(power_generation)
            sum == SumTo(power_generation, n)
        IN  /\ n = Len(wind_speeds)
            /\ variant = "main" => total_energy = sum
            /\ variant = "peak" => total_energy = Rat(sum.num, sum.den * n * 1000)

C2_Witness ==
    /\ Returned /\ variant = "peak" /\ Len(wind_speeds) >= 2
    /\ \A i \in Processed : power_generation[i] # Zero

\* C3: an empty wind series with a valid profile returns an empty power series
\* and total energy 0, without an error, in both variants.
C3_EmptySeriesReturnsZero ==
    (wind_speeds = <<>> /\ ValidProfile) =>
        /\ ~Raised
        /\ Returned => (power_generation = <<>> /\ total_energy = Zero)

\* C4: with startSpeed = ratedSpeed (or maxSpeed = peakPowerSpeed in the
\* peak-power variant) the call ends in an error before any sample is
\* processed and never returns a power series.
C4_DegenerateProfileIsRejected ==
    (start_speed = rated_speed \/ (variant = "peak" /\ max_speed = peak_power_speed)) =>
        /\ ~Returned
        /\ power_generation = <<>>

\* C5: for a non-empty series and a profile violating the ordering, the call
\* never raises: a branch with a zero denominator is never selected, and a
\* power is returned for every sample.
C5_NoCrashOnBadOrdering ==
    (wind_speeds # <<>> /\ ~ValidProfile) =>
        /\ ~Raised
        /\ \A i \in 1..Len(wind_speeds) :
            /\ (variant = "main"
                /\ RegionMain(wind_speeds[i], start_speed, rated_speed, max_speed) = "ramp")
                    => rated_speed - start_speed # 0
            /\ (variant = "peak"
                /\ RegionPeak(wind_speeds[i], start_speed, rated_speed,
                              peak_power_speed, max_speed) = "ramp")
                    => rated_speed - start_speed # 0
            /\ (variant = "peak"
                /\ RegionPeak(wind_speeds[i], start_speed, rated_speed,
                              peak_power_speed, max_speed) = "decline")
                    => max_speed - peak_power_speed # 0
        /\ Returned => Len(power_generation) = Len(wind_speeds)

C5_Witness ==
    /\ Returned /\ wind_speeds # <<>>
    /\ start_speed = rated_speed
    /\ \E i \in Processed : wind_speeds[i] = start_speed
    /\ variant = "peak" /\ max_speed = peak_power_speed

\* The cubic ramp written as one fraction.
Ramp(p, s) == Rat(p * (s - start_speed) * (s - start_speed) * (s - start_speed),
                  (rated_speed - start_speed) * (rated_speed - start_speed)
                    * (rated_speed - start_speed))

\* C6: three-region variant, valid profile: 0 below startSpeed, the cubic ramp
\* on [startSpeed, ratedSpeed), ratedPower from ratedSpeed up to but not
\* including maxSpeed, 0 from maxSpeed upward.
C6_PlateauEndsBeforeMaxSpeed ==
    (variant = "main" /\ ValidMainProfile) =>
        \A i \in Processed :
            LET s == wind_speeds[i]
            IN  power_generation[i] =
                    IF s < start_speed THEN Zero
                    ELSE IF s < rated_speed THEN Ramp(rated_power, s)
                    ELSE IF s < max_speed THEN FromInt(rated_power)
                    ELSE Zero

\* C6 as amended: ratedPower from ratedSpeed up to and including maxSpeed, 0
\* above maxSpeed; in scenario A: 0 for speeds 0-2, the ramp for 3-9, 10000
\* for 10-25 and 0 for 26-29.
C6_PlateauIncludesMaxSpeed ==
    (variant = "main" /\ ValidMainProfile) =>
        /\ \A i \in Processed :
            LET s == wind_speeds[i]
            IN  power_generation[i] =
                    IF s < start_speed THEN Zero
                    ELSE IF s < rated_speed THEN Ramp(rated_power, s)
                    ELSE IF s <= max_speed THEN FromInt(rated_power)
                    ELSE Zero
        /\ (IsScenarioA /\ Returned) =>
            power_generation =
                [i \in 1..30 |->
                    IF i - 1 <= 2 THEN Zero
                    ELSE IF i - 1 <= 9
                         THEN Rat(10000 * (i - 4) * (i - 4) * (i - 4), 343)
                    ELSE IF i - 1 <= 25 THEN FromInt(10000)
                    ELSE Zero]

C6_Witness ==
    /\ IsScenarioA /\ Returned
    /\ power_generation[26] = FromInt(10000)
    /\ power_generation[27] = Zero

\* C7: peak-power variant, valid profile: every speed from ratedSpeed to
\* peakPowerSpeed yields exactly peakPower; from peakPowerSpeed to maxSpeed the
\* output is peakPower - ((s - peakPowerSpeed)/(maxSpeed - peakPowerSpeed)) *
\* (peakPower - ratedPower), which is ratedPower at s = maxSpeed; in scenario
\* B: 14000 on 10..15, declining to 10000 at 25, 0 above 25.
C7_PlateauAndDecline ==
    (variant = "peak" /\ ValidPeakProfile) =>
        /\ \A i \in Processed :
            LET s == wind_speeds[i]
                w == max_speed - peak_power_speed
            IN  /\ (rated_speed <= s /\ s <= peak_power_speed)
                    => power_generation[i] = FromInt(peak_power)
                /\ (peak_power_speed <= s /\ s <= max_speed)
                    => power_generation[i] =
                        Rat(peak_power * w - (s - peak_power_speed) * (peak_power - rated_power), w)
                /\ s = max_speed => power_generation[i] = FromInt(rated_power)
        /\ (IsScenarioB /\ Returned) =>
            /\ \A i \in 11..16 : power_generation[i] = FromInt(14000)
            /\ \A i \in 17..26 : power_generation[i] = FromInt(14000 - 400 * (i - 16))
            /\ power_generation[26] = FromInt(10000)
            /\ \A i \in 27..30 : power_generation[i] = Zero

C7_Witness ==
    /\ IsScenarioB /\ Returned
    /\ power_generation[21] = FromInt(12000)

\* C8: for fixed speeds and a fixed series, multiplying ratedPower and
\* peakPower by k multiplies every returned power and the returned totalEnergy
\* by k, in both variants (and a call that raises still raises).
C8_ScaleInvariance ==
    (Returned \/ Raised) =>
        \A k \in 1..MaxScale :
            LET r == IF variant = "main"
                     THEN CalcMain(wind_speeds, start_speed, rated_speed, max_speed,
                                   k * rated_power)
                     ELSE CalcPeak(wind_speeds, start_speed, rated_speed,
                                   peak_power_speed, max_speed,
                                   k * rated_power, k * peak_power)
            IN  /\ r.raises <=> Raised
                /\ Returned =>
                    /\ r.powers = [i \in Processed |-> Scaled(k, power_generation[i])]
                    /\ r.total = Scaled(k, total_energy)

C8_Witness ==
    /\ Returned /\ variant = "peak" /\ Len(wind_speeds) >= 2
    /\ total_energy # Zero
    /\ \E i \in Processed :
        RegionPeak(wind_speeds[i], start_speed, rated_speed,
                   peak_power_speed, max_speed) = "decline"
    /\ \E i \in Processed :
        RegionPeak(wind_speeds[i], start_speed, rated_speed,
                   peak_power_speed, max_speed) = "peak"

----------------------------------------------------------------------------
\* src/main.py, main(): the Streamlit script. One action is one run of the
\* script; st.session_state and the st.cache_data store outlive a run.

\* ttl of the decorator of fetch_wind_data, in seconds.
ttl == 86400

Addresses == {"Warszawa, Aleje Jerozolimskie", "Krakow"}
Days == 1..MaxDay

\* What the geocoder answers: a location in thousandths of a degree, or
\* nothing.
NotFound == [found |-> FALSE, latitude |-> 0, longitude |-> 0]
Located(lat, lon) == [found |-> TRUE, latitude |-> lat, longitude |-> lon]
GeocoderAnswers == {NotFound, Located(52231, 21006), Located(50064, 19945)}

\* round(x, 2) of a coordinate given in thousandths of a degree: the result
\* in hundredths, ties to even.
Round2(x) ==
    LET q == x \div 10
        r == x % 10
    IN  IF r < 5 THEN q
        ELSE IF r > 5 THEN q + 1
        ELSE IF q % 2 = 0 THEN q ELSE q + 1

\* get_lat_lon_from_address: the rounded pair, or (None, None).
GetLatLonFromAddress(location) ==
    IF location.found
    THEN [found |-> TRUE, latitude |-> Round2(location.latitude),
          longitude |-> Round2(location.longitude)]
    ELSE NotFound

\* date.strftime('%Y-%m-%d')
StrfTime(d) == [format |-> "%Y-%m-%d", day |-> d]

\* pd.DataFrame(): no rows.
EmptyFrame == [empty |-> TRUE, source |-> <<>>, power_generation |-> FALSE]
\* The frame built from the archive's hourly data for a request.
HourlyFrame(key) == [empty |-> FALSE, source |-> key, power_generation |-> FALSE]

\* What the archive does with a request.
Outcomes == {"ok", "http_error", "no_hourly"}

\* The body of fetch_wind_data: the frame on success, an empty frame after
\* st.error otherwise.
FetchWindData(key, outcome) ==
    IF outcome = "ok" THEN HourlyFrame(key) ELSE EmptyFrame

\* st.cache_data(ttl=86400) around fetch_wind_data: a stored return value
\* younger than ttl is returned without running the body; otherwise the body
\* runs and whatever it returns is stored.
CachedFetchWindData(store, now, key, outcome) ==
    IF key \in DOMAIN store /\ now < store[key].stored + ttl
    THEN [value |-> store[key].value, hit |-> TRUE, store |-> store]
    ELSE LET v == FetchWindData(key, outcome)
         IN  [value |-> v, hit |-> FALSE,
              store |-> (key :> [value |-> v, stored |-> now]) @@ store]

\* Mutant of SessionAfterSubmit: the metadata is written whether or not the
\* address was found.
SessionAfterSubmit_MetadataAlways(sess, ll, address, sd, ed, frame) ==
    LET m == [Latitude |-> ll.latitude, Longitude |-> ll.longitude,
              Address |-> address,
              StartDate |-> StrfTime(sd), EndDate |-> StrfTime(ed)]
    IN  IF ll.found
        THEN [k \in {"latitude", "longitude", "wind_data", "metadata"} |->
                CASE k = "latitude" -> ll.latitude
                  [] k = "longitude" -> ll.longitude
                  [] k = "wind_data" -> frame
                  [] k = "metadata" -> m]
        ELSE ("metadata" :> m) @@ sess

\* main() 160-172: what the submission writes to st.session_state.
SessionAfterSubmit(sess, ll, address, sd, ed, frame) ==
    IF ll.found
    THEN [k \in {"latitude", "longitude", "wind_data", "metadata"} |->
            CASE k = "latitude" -> ll.latitude
              [] k = "longitude" -> ll.longitude
              [] k = "wind_data" -> frame
              [] k = "metadata" ->
                    [Latitude |-> ll.latitude, Longitude |-> ll.longitude,
                     Address |-> address,
                     StartDate |-> StrfTime(sd), EndDate |-> StrfTime(ed)]]
    ELSE sess

\* main() 186-199: a non-empty wind_data gets its power_generation column
\* (the column's values, computed by calculate_energy, are not modelled here).
Display(sess) ==
    IF "wind_data" \in DOMAIN sess /\ ~sess["wind_data"].empty
    THEN [sess EXCEPT !["wind_data"].power_generation = TRUE]
    ELSE sess

InitApp == EngineIdle /\ AppIdle

\* A run of main() with the form submitted.
Submit ==
    /\ submits < MaxSubmits
    /\ \E address \in Addresses, sd \in Days, ed \in Days,
          location \in GeocoderAnswers, outcome \in Outcomes :
        LET ll   == GetLatLonFromAddress(location)
            key  == <<ll.latitude, ll.longitude, sd, ed>>
            call == CachedFetchWindData(cache, clock, key, outcome)
        IN  /\ lastGeocode' = IF ll.found THEN "found" ELSE "not_found"
            /\ IF ll.found
               THEN /\ session' = Display(SessionAfterSubmit(session, ll, address,
                                                             sd, ed, call.value))
                    /\ cache' = call.store
                    /\ requests' = IF call.hit THEN requests ELSE requests + 1
                    /\ lastCall' = [made |-> TRUE, key |-> key, hit |-> call.hit,
                                    value |-> call.value]
               ELSE /\ session' = Display(SessionAfterSubmit(session, ll, address,
                                                             sd, ed, EmptyFrame))
                    /\ UNCHANGED <<cache, requests, lastCall>>
    /\ submits' = submits + 1
    /\ UNCHANGED <<clock, engineVars>>

\* A run of main() without a submission (a widget changed).
Rerun ==
    /\ session' = Display(session)
    /\ UNCHANGED <<cache, clock, requests, submits, lastGeocode, lastCall, engineVars>>

\* Time passes between runs.
Tick ==
    /\ clock < MaxTicks * TickSeconds
    /\ clock' = clock + TickSeconds
    /\ UNCHANGED <<session, cache, requests, submits, lastGeocode, lastCall, engineVars>>

NextApp == Submit \/ Rerun \/ Tick

SpecApp == InitApp /\ [][NextApp]_vars

----------------------------------------------------------------------------
\* C9: fetch_wind_data caches only successful responses: a fetch answered
\* from the cache never returns a remembered empty result (after a failed
\* fetch, the same request within 24 hours contacts the archive again).
C9_OnlySuccessIsCached ==
    (lastCall.made /\ lastCall.hit) => ~lastCall.value.empty

SessionKeys == {"latitude", "longitude", "wind_data", "metadata"}

\* The stored coordinates, wind data and metadata belong to one submission.
SessionConsistent ==
    /\ DOMAIN session \in {{}, SessionKeys}
    /\ DOMAIN session = SessionKeys =>
        LET m == session["metadata"]
            w == session["wind_data"]
        IN  /\ m.Latitude = session["latitude"]
            /\ m.Longitude = session["longitude"]
            /\ ~w.empty =>
                /\ w.source[1] = session["latitude"]
                /\ w.source[2] = session["longitude"]
                /\ StrfTime(w.source[3]) = m.StartDate
                /\ StrfTime(w.source[4]) = m.EndDate

====
